---- MODULE Spec2Model ----
(***************************************************************************)
(* Model of arkcoin/key.go: key pairs, WIF import/export and address       *)
(* derivation.  Byte slices are sequences over 0..255, strings are         *)
(* sequences of one-character strings.                                     *)
(***************************************************************************)
EXTENDS Integers, Sequences, FiniteSets, TLC

VARIABLES
    params,   \* the shared *Params
    key,      \* the PrivateKey the caller holds, NoKey before any is built
    last      \* the last call: its arguments and what it returned

\* ------------------------------------------------------------------------
\* Bytes
\* ------------------------------------------------------------------------

ByteBase == 256

Repeat(b, n) == [i \in 1..n |-> b]

Drop(s, n) == IF n >= Len(s) THEN << >> ELSE SubSeq(s, n + 1, Len(s))

Take(s, n) == IF n >= Len(s) THEN s ELSE SubSeq(s, 1, n)

\* How many leading elements of s equal x.
LeadingCount(s, x) ==
    LET other == {i \in 1..Len(s) : s[i] # x}
    IN  IF other = {} THEN Len(s)
        ELSE (CHOOSE i \in other : \A j \in other : i <= j) - 1

\* big.Int.SetBytes followed by Bytes(): the minimal big-endian form.
StripZeros(s) == Drop(s, LeadingCount(s, 0))

\* Sums and long divisions split the sequence in halves, so that their
\* evaluation nests only as deep as the logarithm of its length.
Mid(lo, hi) == (lo + hi) \div 2

RECURSIVE SumRange(_, _, _)
SumRange(s, lo, hi) ==
    IF lo > hi THEN 0
    ELSE IF lo = hi THEN s[lo]
    ELSE SumRange(s, lo, Mid(lo, hi)) + SumRange(s, Mid(lo, hi) + 1, hi)

SumSeq(s) == SumRange(s, 1, Len(s))

\* ------------------------------------------------------------------------
\* base58 codec (package arkcoin/base58)
\* ------------------------------------------------------------------------

Radix == 58

Alphabet ==
    << "1", "2", "3", "4", "5", "6", "7", "8", "9",
       "A", "B", "C", "D", "E", "F", "G", "H", "J", "K", "L", "M", "N",
       "P", "Q", "R", "S", "T", "U", "V", "W", "X", "Y", "Z",
       "a", "b", "c", "d", "e", "f", "g", "h", "i", "j", "k", "m", "n",
       "o", "p", "q", "r", "s", "t", "u", "v", "w", "x", "y", "z" >>

AlphabetSet == {Alphabet[i] : i \in 1..Radix}

\* The digit a character of the alphabet stands for.
DigitOf(c) == (CHOOSE i \in 1..Radix : Alphabet[i] = c) - 1

\* The three digits of v in radix `to`, most significant first.
Digits3(v, to) == <<v \div (to * to), (v \div to) % to, v % to>>

\* One long division of a big-endian number in radix `from` by div:
\* quotient digits in q, remainder in r.  DivRange divides the digits
\* lo..hi with the remainder r0 carried in from the left.
DivJoin(left, right) == [q |-> left.q \o right.q, r |-> right.r]

RECURSIVE DivRange(_, _, _, _, _, _)
DivRight(s, lo, hi, left, from, div) ==
    DivJoin(left, DivRange(s, Mid(lo, hi) + 1, hi, left.r, from, div))

DivRange(s, lo, hi, r0, from, div) ==
    IF lo > hi THEN [q |-> << >>, r |-> r0]
    ELSE IF lo = hi
    THEN [q |-> <<(r0 * from + s[lo]) \div div>>, r |-> (r0 * from + s[lo]) % div]
    ELSE DivRight(s, lo, hi, DivRange(s, lo, Mid(lo, hi), r0, from, div), from, div)

LongDiv(s, from, div) == DivRange(s, 1, Len(s), 0, from, div)

\* Change of radix of a number without leading zeros, three digits of the
\* target radix per long division.
RECURSIVE Convert(_, _, _, _)
ConvertStep(d, from, to, out) ==
    Convert(StripZeros(d.q), from, to, Digits3(d.r, to) \o out)

Convert(s, from, to, out) ==
    IF s = << >> THEN StripZeros(out)
    ELSE ConvertStep(LongDiv(s, from, to * to * to), from, to, out)

base58Chars(digits) == [i \in 1..Len(digits) |-> Alphabet[digits[i] + 1]]

\* base58.Encode: one "1" per leading zero byte, then the number in radix 58.
base58Encode(b) ==
    Repeat(Alphabet[1], LeadingCount(b, 0))
        \o base58Chars(Convert(StripZeros(b), ByteBase, Radix, << >>))

base58Valid(s) == \A i \in 1..Len(s) : s[i] \in AlphabetSet

base58Digits(s) == [i \in 1..Len(s) |-> DigitOf(s[i])]

\* base58.Decode of a string of alphabet characters.
base58Decode(s) ==
    Repeat(0, LeadingCount(s, Alphabet[1]))
        \o Convert(StripZeros(base58Digits(s)), Radix, ByteBase, << >>)

\* ------------------------------------------------------------------------
\* Curve and digests (btcec, crypto/sha256, ripemd160), scaled down
\* ------------------------------------------------------------------------

PrivKeyBytesLen == 32

RipemdSize == 20

Sha256Size == 32

\* Order of the group the model uses in place of secp256k1's.
CurveOrder == 7

paddedAppend(size, src) ==
    (IF Len(src) < size THEN Repeat(0, size - Len(src)) ELSE << >>) \o src

\* The value of big-endian bytes k modulo the group order: v is the value
\* of the bytes lo..hi, w the weight ByteBase^(hi - lo + 1), both reduced.
ModJoin(left, right) ==
    [v |-> (left.v * right.w + right.v) % CurveOrder,
     w |-> (left.w * right.w) % CurveOrder]

RECURSIVE ModRange(_, _, _)
ModRange(k, lo, hi) ==
    IF lo > hi THEN [v |-> 0, w |-> 1 % CurveOrder]
    ELSE IF lo = hi THEN [v |-> k[lo] % CurveOrder, w |-> ByteBase % CurveOrder]
    ELSE ModJoin(ModRange(k, lo, Mid(lo, hi)), ModRange(k, Mid(lo, hi) + 1, hi))

ScalarMod(k) == ModRange(k, 1, Len(k)).v

\* k * G in the group Z_CurveOrder with generator 1; 0 is the point at
\* infinity.
ScalarBaseMult(k) == ScalarMod(k)

PointX(p) == paddedAppend(PrivKeyBytesLen, StripZeros(<<p>>))

PointY(p) == paddedAppend(PrivKeyBytesLen, StripZeros(<<(p * p + 3) % ByteBase>>))

SerializeCompressed(p) == <<2 + ((p * p + 3) % 2)>> \o PointX(p)

SerializeUncompressed(p) == <<4>> \o PointX(p) \o PointY(p)

\* btcec.PrivKeyFromBytes: D = SetBytes(pk), public point = pk * G.  It
\* validates nothing.
PrivKeyFromBytes(pk) == [D |-> StripZeros(pk), point |-> ScalarBaseMult(pk)]

\* btcec PrivateKey.Serialize: D.Bytes() left-padded to 32 bytes.
privSerialize(D) == paddedAppend(PrivKeyBytesLen, D)

\* A digest of `size` bytes that depends on the sum and the length of the
\* data; it stands for the hash functions, which the model does not compute.
Mix(sum, n, size, salt) ==
    [i \in 1..size |-> (sum * salt + i * (n + salt)) % ByteBase]

Ripemd160(data) == Mix(SumSeq(data), Len(data), RipemdSize, 3)

Sha256(data) == Mix(SumSeq(data), Len(data), Sha256Size, 5)

\* ------------------------------------------------------------------------
\* Go slices: a backing array per name, a slice is an array and a length
\* ------------------------------------------------------------------------

SliceBytes(mem, s) == Take(mem[s.a], s.n)

GrowCap(n) == IF 2 * n > 8 THEN 2 * n ELSE 8

\* append(s, b): in place when there is spare capacity, else a new array.
GoAppend(mem, s, b) ==
    IF s.n < Len(mem[s.a])
    THEN [mem |-> [mem EXCEPT ![s.a][s.n + 1] = b],
          s   |-> [s EXCEPT !.n = s.n + 1]]
    ELSE [mem |-> [mem EXCEPT !.tmp = SliceBytes(mem, s) \o <<b>>
                                      \o Repeat(0, GrowCap(s.n) - (s.n + 1))],
          s   |-> [a |-> "tmp", n |-> s.n + 1]]

\* copy(p[1:], p[:len(p)-1]): the builtin copy moves as memmove does.
GoCopyShift(mem, s) ==
    [mem EXCEPT ![s.a] =
        [i \in 1..Len(@) |-> IF 2 <= i /\ i <= s.n THEN @[i - 1] ELSE @[i]]]

\* ------------------------------------------------------------------------
\* Inputs
\* ------------------------------------------------------------------------

\* How far past 32 bytes a scalar input may run.
MaxOver == 1

\* Spare capacity a caller's slice may have behind its length.
MaxSpare == 1

Pat(n, lead, tail) ==
    [i \in 1..n |-> IF i = n THEN tail ELSE IF i = 1 THEN lead ELSE 0]

Shapes == {<<0, 0>>, <<0, 1>>, <<9, 1>>, <<9, 2>>}

ScalarLens == {0, PrivKeyBytesLen - 1} \cup
              PrivKeyBytesLen..(PrivKeyBytesLen + MaxOver)

ScalarInputs == {Pat(n, sh[1], sh[2]) : n \in ScalarLens, sh \in Shapes}

ParamChoices ==
    {[DumpedPrivateKeyHeader |-> h, AddressHeader |-> 23, P2SHHeader |-> 5] :
        h \in {<< >>, <<170>>, <<23, 170>>}}

WifBytes ==
    {<< >>} \cup
    {<<h>> \o Pat(n, sh[1], sh[2]) :
        h \in {170, 0},
        n \in ScalarLens \cup {PrivKeyBytesLen + 1 + MaxOver},
        sh \in Shapes \ {<<0, 0>>}}

AddrBytes ==
    {<< >>} \cup
    {<<23>> \o Pat(n, 9, 1) : n \in {0, RipemdSize - 1, RipemdSize, RipemdSize + 1}}

\* A string with a character outside the alphabet.
BadString == <<"1", "0", "O">>

WifStrings == {base58Encode(b) : b \in WifBytes} \cup {BadString}

AddrStrings == {base58Encode(b) : b \in AddrBytes} \cup {BadString}

HashInputs == {Repeat(0, Sha256Size), Sha256(<<1>>)}

Passwords == {<< >>, <<112, 119>>}

RedeemInputs == {<< >>, <<9, 0, 1>>}

\* base58.Decode, with the decodings of the fixed input strings kept.
DecodeCache ==
    {<<s, base58Decode(s)>> : s \in {t \in WifStrings \cup AddrStrings : base58Valid(t)}}

Decode(s) ==
    IF \E p \in DecodeCache : p[1] = s
    THEN (CHOOSE p \in DecodeCache : p[1] = s)[2]
    ELSE base58Decode(s)

\* ------------------------------------------------------------------------
\* Operations of key.go as functions of their arguments
\* ------------------------------------------------------------------------

NoKey == [live |-> FALSE, D |-> << >>, point |-> 0, isCompressed |-> FALSE]

MkKey(kp, isCompressed) ==
    [live |-> TRUE, D |-> kp.D, point |-> kp.point, isCompressed |-> isCompressed]

\* The loop comparing pb[0] with the index of the range instead of its value.
HeaderOKByIndex(pb, headers) == \E i \in 1..Len(headers) : pb[1] = i - 1

\* The loop over param.DumpedPrivateKeyHeader; pb is not empty here.
HeaderOK(pb, headers) == \E i \in 1..Len(headers) : pb[1] = headers[i]

\* FromWIF taking the public point from the bytes before the flag is cut off.
FromWIFKeyStalePoint(pb) ==
    LET isCompressed == Len(pb) = PrivKeyBytesLen + 2 /\ pb[PrivKeyBytesLen + 2] = 1
        body         == IF isCompressed THEN Take(pb, Len(pb) - 1) ELSE pb
    IN  [live |-> TRUE, D |-> PrivKeyFromBytes(Drop(body, 1)).D,
         point |-> PrivKeyFromBytes(Drop(pb, 1)).point, isCompressed |-> isCompressed]

\* The priv FromWIF builds once the header is accepted.
FromWIFKey(pb) ==
    LET isCompressed == Len(pb) = PrivKeyBytesLen + 2 /\ pb[PrivKeyBytesLen + 2] = 1
        body         == IF isCompressed THEN Take(pb, Len(pb) - 1) ELSE pb
    IN  MkKey(PrivKeyFromBytes(Drop(body, 1)), isCompressed)

\* FromWIF.  pb[0] is read inside the loop, so an empty pb panics exactly
\* when the header list is not empty.
FromWIF(wif, param) ==
    IF ~base58Valid(wif)
    THEN [status |-> "error", decodeOK |-> FALSE, pb |-> << >>, key |-> NoKey]
    ELSE LET pb == Decode(wif)
         IN  IF Len(param.DumpedPrivateKeyHeader) > 0 /\ Len(pb) = 0
             THEN [status |-> "panic", decodeOK |-> TRUE, pb |-> pb, key |-> NoKey]
             ELSE IF Len(param.DumpedPrivateKeyHeader) = 0
                     \/ ~HeaderOK(pb, param.DumpedPrivateKeyHeader)
             THEN [status |-> "error", decodeOK |-> TRUE, pb |-> pb, key |-> NoKey]
             ELSE [status |-> "ok", decodeOK |-> TRUE, pb |-> pb,
                   key |-> FromWIFKey(pb)]

NewPrivateKey(pb) == MkKey(PrivKeyFromBytes(pb), TRUE)

NewPrivateKeyFromPassword(password) == NewPrivateKey(Sha256(password))

\* A shift that copies byte by byte from the front, each byte from the one
\* just overwritten.
ForwardShift(mem, s) ==
    [mem EXCEPT ![s.a] =
        [i \in 1..Len(@) |-> IF 2 <= i /\ i <= s.n THEN @[1] ELSE @[i]]]

AppendShiftForward(mem, s, header) ==
    LET a == GoAppend(mem, s, 0)
        c == ForwardShift(a.mem, a.s)
    IN  [mem |-> [c EXCEPT ![a.s.a][1] = header], s |-> a.s]

\* Lines 156-158, 187-189 and 230-232: append a placeholder, shift right by
\* one, write the header at index 0.
AppendShift(mem, s, header) ==
    LET a == GoAppend(mem, s, 0)
        c == GoCopyShift(a.mem, a.s)
    IN  [mem |-> [c EXCEPT ![a.s.a][1] = header], s |-> a.s]

NoEncode ==
    [status |-> "panic", header |-> 0, payload |-> << >>, buf |-> << >>,
     out |-> << >>, arg |-> << >>]

\* What an encode site hands to base58.Encode, and what it returns.
EncodedFrom(r, header, payload) ==
    [status |-> "ok", header |-> header, payload |-> payload,
     buf |-> SliceBytes(r.mem, r.s), out |-> base58Encode(SliceBytes(r.mem, r.s)),
     arg |-> r.mem.arg]

Encoded(mem, s, header) ==
    EncodedFrom(AppendShift(mem, s, header), header, SliceBytes(mem, s))

\* priv.Serialize() is a fresh array of capacity 32 (or longer when D is);
\* arg holds the bytes of the key's own scalar.
WIFAddress(priv, param) ==
    LET m0 == [arg |-> priv.D, tmp |-> privSerialize(priv.D)]
        s0 == [a |-> "tmp", n |-> Len(m0.tmp)]
        r1 == IF priv.isCompressed THEN GoAppend(m0, s0, 1) ELSE [mem |-> m0, s |-> s0]
    IN  IF Len(param.DumpedPrivateKeyHeader) = 0 THEN NoEncode
        ELSE Encoded(r1.mem, r1.s, param.DumpedPrivateKeyHeader[1])

Serialize(priv) ==
    IF priv.isCompressed THEN SerializeCompressed(priv.point)
    ELSE SerializeUncompressed(priv.point)

PubAddressBytes(priv) == Ripemd160(Serialize(priv))

\* ripeHash.Sum(nil) is a fresh array with room to spare.
PubAddress(priv, param) ==
    LET m0 == [arg |-> << >>, tmp |-> PubAddressBytes(priv) \o Repeat(0, 4)]
    IN  Encoded(m0, [a |-> "tmp", n |-> RipemdSize], param.AddressHeader)

\* AddressBytes handing back the caller's slice in place of the digest.
AddressBytesInPlace(mem, redeem) == [mem |-> mem, s |-> redeem]

\* AddressBytes(redeem): the digest in a fresh array; redeem is only read.
AddressBytes(mem, redeem) ==
    [mem |-> [mem EXCEPT !.tmp = Ripemd160(SliceBytes(mem, redeem)) \o Repeat(0, 4)],
     s   |-> [a |-> "tmp", n |-> RipemdSize]]

\* Address(redeem, header); the caller's array is arr, its slice the first
\* n bytes of it.
Address(arr, n, header) ==
    LET r == AddressBytes([arg |-> arr, tmp |-> << >>], [a |-> "arg", n |-> n])
    IN  Encoded(r.mem, r.s, header)

DecodeAddress(addr) ==
    IF ~base58Valid(addr)
    THEN [status |-> "error", decodeOK |-> FALSE, pb |-> << >>, out |-> << >>]
    ELSE LET pb == Decode(addr)
         IN  IF Len(pb) = 0
             THEN [status |-> "panic", decodeOK |-> TRUE, pb |-> pb, out |-> << >>]
             ELSE [status |-> "ok", decodeOK |-> TRUE, pb |-> pb, out |-> Drop(pb, 1)]

\* Signatures in the model group: r from the hash, s = z + r * d.
Sign(priv, hash) ==
    LET z == ScalarBaseMult(hash)
        r == (SumSeq(hash) + Len(hash) + 1) % CurveOrder
    IN  <<48, r, (z + r * ScalarBaseMult(priv.D)) % CurveOrder>>

Verify(priv, signature, data) ==
    IF Len(signature) # 3 \/ signature[1] # 48 THEN "error"
    ELSE IF signature[3] = (ScalarBaseMult(data) + signature[2] * priv.point) % CurveOrder
    THEN "ok" ELSE "error"

\* ------------------------------------------------------------------------
\* State
\* ------------------------------------------------------------------------

vars == <<params, key, last>>

NoLast ==
    [op |-> "none", status |-> "ok", str |-> << >>, decodeOK |-> FALSE,
     pb |-> << >>, arg |-> << >>, spare |-> 0, argAfter |-> << >>,
     encCalled |-> FALSE, encHeader |-> 0, encPayload |-> << >>,
     encBuf |-> << >>, outStr |-> << >>, outBytes |-> << >>, keyOut |-> FALSE]

WithEncode(l, e) ==
    [l EXCEPT !.status = e.status, !.encCalled = (e.status = "ok"),
              !.encHeader = e.header, !.encPayload = e.payload,
              !.encBuf = e.buf, !.outStr = e.out]

Init ==
    /\ params \in ParamChoices
    /\ key = NoKey
    /\ last = NoLast

\* Generate: a scalar in 1..order-1, or the entropy source fails.
DoGenerate ==
    \E d \in 0..(CurveOrder - 1) :
        /\ params' = params
        /\ IF d = 0
           THEN /\ key' = key
                /\ last' = [NoLast EXCEPT !.op = "Generate", !.status = "error"]
           ELSE /\ key' = MkKey(PrivKeyFromBytes(<<d>>), TRUE)
                /\ last' = [NoLast EXCEPT !.op = "Generate", !.keyOut = TRUE]

DoNewPrivateKey ==
    \E pb \in ScalarInputs :
        /\ params' = params
        /\ key' = NewPrivateKey(pb)
        /\ last' = [NoLast EXCEPT !.op = "NewPrivateKey", !.arg = pb,
                                  !.argAfter = pb, !.keyOut = TRUE]

DoNewPrivateKeyFromPassword ==
    \E pw \in Passwords :
        /\ params' = params
        /\ key' = NewPrivateKeyFromPassword(pw)
        /\ last' = [NoLast EXCEPT !.op = "NewPrivateKeyFromPassword", !.arg = pw,
                                  !.argAfter = pw, !.keyOut = TRUE]

\* FromWIF on a string from outside, or on the string WIFAddress just gave.
DoFromWIF ==
    \E wif \in WifStrings \cup
               (IF last.op = "WIFAddress" /\ last.status = "ok"
                THEN {last.outStr} ELSE {}) :
        \E r \in {FromWIF(wif, params)} :
            /\ params' = params
            /\ key' = IF r.status = "ok" THEN r.key ELSE key
            /\ last' = [NoLast EXCEPT !.op = "FromWIF", !.status = r.status,
                                      !.str = wif, !.decodeOK = r.decodeOK,
                                      !.pb = r.pb, !.keyOut = (r.status = "ok")]

\* The key's scalar afterwards is what its bytes hold after the call.
DoWIFAddress ==
    /\ key.live
    /\ params' = params
    /\ \E e \in {WIFAddress(key, params)} :
        /\ key' = IF e.status = "ok" THEN [key EXCEPT !.D = e.arg] ELSE key
        /\ last' = WithEncode([NoLast EXCEPT !.op = "WIFAddress", !.arg = key.D,
                                              !.argAfter = IF e.status = "ok"
                                                           THEN e.arg ELSE key.D],
                              e)

DoSerialize ==
    /\ key.live
    /\ UNCHANGED <<params, key>>
    /\ last' = [NoLast EXCEPT !.op = "Serialize", !.outBytes = Serialize(key)]

DoPubAddressBytes ==
    /\ key.live
    /\ UNCHANGED <<params, key>>
    /\ last' = [NoLast EXCEPT !.op = "PublicKey.AddressBytes",
                              !.outBytes = PubAddressBytes(key)]

DoPubAddress ==
    /\ key.live
    /\ UNCHANGED <<params, key>>
    /\ \E e \in {PubAddress(key, params)} :
        last' = WithEncode([NoLast EXCEPT !.op = "PublicKey.Address"], e)

DoSign ==
    /\ key.live
    /\ \E hash \in HashInputs :
        /\ UNCHANGED <<params, key>>
        /\ last' = [NoLast EXCEPT !.op = "Sign", !.arg = hash, !.argAfter = hash,
                                  !.outBytes = Sign(key, hash)]

\* Verify on a signature from outside, or on the one Sign just gave.
DoVerify ==
    /\ key.live
    /\ \E data \in HashInputs :
       \E sig \in {<< >>, <<48, 1, 1>>} \cup
                  (IF last.op = "Sign" THEN {last.outBytes} ELSE {}) :
        /\ UNCHANGED <<params, key>>
        /\ last' = [NoLast EXCEPT !.op = "Verify", !.arg = sig, !.argAfter = sig,
                                  !.status = Verify(key, sig, data)]

DoDecodeAddress ==
    \E addr \in AddrStrings \cup
                (IF last.op = "PublicKey.Address" THEN {last.outStr} ELSE {}) :
        \E r \in {DecodeAddress(addr)} :
            /\ UNCHANGED <<params, key>>
            /\ last' = [NoLast EXCEPT !.op = "DecodeAddress", !.status = r.status,
                                      !.str = addr, !.decodeOK = r.decodeOK,
                                      !.pb = r.pb, !.outBytes = r.out]

DoAddressBytes ==
    \E redeem \in RedeemInputs, spare \in 0..MaxSpare :
        \E r \in {AddressBytes([arg |-> redeem \o Repeat(0, spare), tmp |-> << >>],
                                [a |-> "arg", n |-> Len(redeem)])} :
            /\ UNCHANGED <<params, key>>
            /\ last' = [NoLast EXCEPT !.op = "AddressBytes", !.arg = redeem,
                                      !.spare = spare,
                                      !.argAfter = Take(r.mem.arg, Len(redeem)),
                                      !.outBytes = SliceBytes(r.mem, r.s)]

DoAddress ==
    \E redeem \in RedeemInputs, spare \in 0..MaxSpare :
        \E e \in {Address(redeem \o Repeat(0, spare), Len(redeem), params.P2SHHeader)} :
            /\ UNCHANGED <<params, key>>
            /\ last' = WithEncode([NoLast EXCEPT !.op = "Address", !.arg = redeem,
                                                 !.spare = spare,
                                                 !.argAfter = Take(e.arg, Len(redeem))],
                                  e)

Next ==
    \/ DoGenerate
    \/ DoNewPrivateKey
    \/ DoNewPrivateKeyFromPassword
    \/ DoFromWIF
    \/ DoWIFAddress
    \/ DoSerialize
    \/ DoPubAddressBytes
    \/ DoPubAddress
    \/ DoSign
    \/ DoVerify
    \/ DoDecodeAddress
    \/ DoAddressBytes
    \/ DoAddress

Spec == Init /\ [][Next]_vars

\* ------------------------------------------------------------------------
\* Properties
\* ------------------------------------------------------------------------

HeaderSet(param) ==
    {param.DumpedPrivateKeyHeader[i] : i \in 1..Len(param.DumpedPrivateKeyHeader)}

AddressOps == {"PublicKey.Address", "Address"}

ReadOnlyOps ==
    {"WIFAddress", "Serialize", "PublicKey.AddressBytes", "PublicKey.Address",
     "Sign", "Verify", "DecodeAddress", "AddressBytes", "Address"}

\* C1: WIF round trip.  For every key a constructor has built, under Params
\* with a non-empty DumpedPrivateKeyHeader, FromWIF(key.WIFAddress(), params)
\* succeeds and returns a key with the same scalar and the same isCompressed.
WIFRoundTrip ==
    (key.live /\ Len(params.DumpedPrivateKeyHeader) > 0) =>
        LET r == FromWIF(WIFAddress(key, params).out, params)
        IN  /\ r.status = "ok"
            /\ r.key.D = key.D
            /\ r.key.isCompressed = key.isCompressed

\* C2: DecodeAddress returns an error and no digest whenever the decoded
\* bytes are not exactly 21 long, and for 21 bytes returns the 20 bytes after
\* the header.
DecodeAddressChecksLength ==
    (last.op = "DecodeAddress" /\ last.decodeOK) =>
        IF Len(last.pb) = RipemdSize + 1
        THEN last.status = "ok" /\ last.outBytes = Drop(last.pb, 1)
        ELSE last.status = "error" /\ last.outBytes = << >>

\* C3: FromWIF fails with an error and returns no key whenever the decoded
\* bytes, header included, are neither 33 nor 34 long, accepted header or not.
FromWIFChecksLength ==
    (/\ last.op = "FromWIF"
     /\ last.decodeOK
     /\ Len(last.pb) \notin {PrivKeyBytesLen + 1, PrivKeyBytesLen + 2}) =>
        last.status = "error" /\ ~last.keyOut

\* C4: FromWIF header validation.  A decoded string whose leading byte is not
\* in DumpedPrivateKeyHeader gets an error and no key; a key is returned only
\* when the leading byte equals some element of the list, at any position.
FromWIFHeaderValidation ==
    (last.op = "FromWIF" /\ last.decodeOK) =>
        /\ (Len(last.pb) > 0 /\ last.pb[1] \notin HeaderSet(params)) =>
               (last.status = "error" /\ ~last.keyOut)
        /\ last.keyOut => (Len(last.pb) > 0 /\ last.pb[1] \in HeaderSet(params))

\* C4 happens: a 34-byte WIF with a well-formed body whose leading byte is in
\* neither position of a two-element header list is turned down.
FromWIFHeaderValidationWitness ==
    /\ last.op = "FromWIF"
    /\ last.decodeOK
    /\ Len(params.DumpedPrivateKeyHeader) = 2
    /\ Len(last.pb) = PrivKeyBytesLen + 2
    /\ last.pb[1] \notin HeaderSet(params)
    /\ last.status = "error"
    /\ ~last.keyOut

\* C5: NewPrivateKey reports an error and yields no key for an input that is
\* all zero or whose length is not 32.
NewPrivateKeyRejectsInvalid ==
    (/\ last.op = "NewPrivateKey"
     /\ (Len(last.arg) # PrivKeyBytesLen \/ StripZeros(last.arg) = << >>)) =>
        last.status = "error" /\ ~last.keyOut

\* C6: at each encode site the buffer handed to base58.Encode is
\* header ++ payload, one byte longer than the payload; for the two address
\* sites it is the 21 bytes [header][20-byte digest].
EncodeShift ==
    last.encCalled =>
        /\ last.encBuf = <<last.encHeader>> \o last.encPayload
        /\ Len(last.encBuf) = Len(last.encPayload) + 1
        /\ last.op \in AddressOps => Len(last.encBuf) = RipemdSize + 1

\* C6 happens: WIFAddress has encoded a compressed key whose 32-byte scalar
\* starts and ends with non-zero bytes, a 33-byte payload.
EncodeShiftWitness ==
    /\ last.op = "WIFAddress"
    /\ last.encCalled
    /\ Len(last.encPayload) = PrivKeyBytesLen + 1
    /\ last.encPayload[1] = 9
    /\ last.encPayload[PrivKeyBytesLen] = 2
    /\ last.encPayload[PrivKeyBytesLen + 1] = 1

\* C7: FromWIF compression branching.  With an accepted header, 34 decoded
\* bytes give a compressed key whose scalar is the 32 bytes after the header,
\* and 33 decoded bytes give an uncompressed key with that scalar.
FromWIFCompression ==
    (last.op = "FromWIF" /\ last.keyOut) =>
        /\ Len(last.pb) = PrivKeyBytesLen + 2 =>
               /\ key.isCompressed
               /\ key.D = StripZeros(SubSeq(last.pb, 2, PrivKeyBytesLen + 1))
        /\ Len(last.pb) = PrivKeyBytesLen + 1 =>
               /\ ~key.isCompressed
               /\ key.D = StripZeros(SubSeq(last.pb, 2, PrivKeyBytesLen + 1))

\* C8: no call ends in a panic, an out-of-bounds access or a fatal exit,
\* whatever the input and the Params.
NoPanic == last.status # "panic"

\* C9: key-pair consistency.  The public point of every key the caller holds
\* is its scalar times the generator, after construction and after any calls
\* on it.
KeyPairConsistent == key.live => key.point = ScalarBaseMult(key.D)

\* C9 happens: an uncompressed key imported by FromWIF, not the point at
\* infinity, has signed and then verified its signature.
KeyPairConsistentWitness ==
    /\ key.live
    /\ ~key.isCompressed
    /\ key.point # 0
    /\ last.op = "Verify"
    /\ last.status = "ok"

\* C10: no mutation after construction.  Every step of a read-only operation
\* leaves the key, the Params and the bytes of the caller's input slice as
\* they were.
NoMutation ==
    [][last'.op \in ReadOnlyOps =>
           /\ key' = key
           /\ params' = params
           /\ last'.argAfter = last'.arg]_vars

\* C10 happens: Address has encoded the digest of a non-empty redeem script
\* whose slice has spare capacity behind it.
NoMutationWitness ==
    /\ last.op = "Address"
    /\ last.encCalled
    /\ Len(last.arg) > 0
    /\ last.spare > 0
    /\ last.argAfter = last.arg

====
